---- MODULE Spec2Model ----
(***************************************************************************)
(* A model of the NetBox CSV -> network diagram tool                       *)
(* (src/attached_assets/test_1756235972699.py): token normalisation, node  *)
(* classification, edge reading, layer assignment and grid layout.         *)
(*                                                                         *)
(* A Python str is modelled as a sequence of one-character strings, so     *)
(* that stripping, regular-expression matching, lower-casing, prefix and   *)
(* substring tests and the code-point order of str comparison are all      *)
(* computed, character by character.                                       *)
(***************************************************************************)
EXTENDS Integers, Sequences, FiniteSets, TLC

VARIABLES
    token,      \* SpecTok: the raw token handed to normalize_device_token
    tpc,        \* SpecTok: position ("start", "normalized", "renormalized", "classified")
    norm1,      \* SpecTok: normalize_device_token(token)
    norm2,      \* SpecTok: normalize_device_token(norm1)
    role,       \* SpecTok: classify_node(norm1)
    csv,        \* main: the input file [exists, keys, rows]
    no_dot,     \* main: args.no_dot
    run,        \* which of two independent runs on the same input this is
    pc,         \* position in main / read_edges / assign_layers
    i,          \* read_edges: rows consumed so far
    nodes,      \* read_edges: nodes (a set of identifiers)
    edges,      \* read_edges: edges (a set of sorted pairs)
    edges_list, \* read_edges: the returned list of {"a":, "b":} records
    seeds,      \* assign_layers: seeds (a list)
    dist,       \* assign_layers: dist (node -> distance / layer)
    q,          \* assign_layers: the deque q
    layers_map, \* the map assign_layers returned
    pos,        \* layout_positions: positions
    canvas,     \* layout_positions: <<canvas_w, canvas_h>>
    svg,        \* whether the SVG artifact has been written
    parts,      \* render_svg: the list parts written to the SVG file
    dot,        \* whether the DOT artifact has been written
    status,     \* the value main returned (-1: none yet)
    first       \* what the first run produced

tokvars == <<token, tpc, norm1, norm2, role>>

pipevars == <<csv, no_dot, run, pc, i, nodes, edges, edges_list, seeds, dist, q,
              layers_map, pos, canvas, svg, parts, dot, status, first>>

vars == <<tokvars, pipevars>>

----------------------------------------------------------------------------
(* Characters and strings                                                  *)

\* The printable ASCII characters in code-point order, 32 (space) .. 126 (~);
\* the double quote (34), the backslash (92) and the backtick (96) keep their
\* places under a name.
CharTable ==
    << " ", "!", "<dquote>", "#", "$", "%", "&", "'", "(", ")", "*", "+", ",", "-", ".", "/",
       "0", "1", "2", "3", "4", "5", "6", "7", "8", "9", ":", ";", "<", "=", ">", "?",
       "@", "A", "B", "C", "D", "E", "F", "G", "H", "I", "J", "K", "L", "M", "N", "O",
       "P", "Q", "R", "S", "T", "U", "V", "W", "X", "Y", "Z", "[", "<backslash>", "]", "^", "_",
       "<backtick>", "a", "b", "c", "d", "e", "f", "g", "h", "i", "j", "k", "l", "m", "n", "o",
       "p", "q", "r", "s", "t", "u", "v", "w", "x", "y", "z", "{", "|", "}", "~" >>

CharSet == { CharTable[k] : k \in 1..Len(CharTable) }

\* ord(c): the code point of a character.
Ord == [ c \in CharSet |-> 31 + (CHOOSE k \in 1..Len(CharTable) : CharTable[k] = c) ]

\* chr(n)
Chr(n) == CharTable[n - 31]

IsSpace(c) == c = " "

IsDigit(c) == Ord[c] >= 48 /\ Ord[c] <= 57

IsUpper(c) == Ord[c] >= 65 /\ Ord[c] <= 90

IsLowerLetter(c) == Ord[c] >= 97 /\ Ord[c] <= 122

\* The class written without the hyphen: [A-Za-z0-9_].
IsTokenChar_NoHyphen(c) == IsUpper(c) \/ IsLowerLetter(c) \/ IsDigit(c) \/ c = "_"

\* One character of the class [A-Za-z0-9_\-] of the regular expression.
IsTokenChar(c) == IsUpper(c) \/ IsLowerLetter(c) \/ IsDigit(c) \/ c = "_" \/ c = "-"

\* str.lower(), one character and a whole string.
LowerChar(c) == IF IsUpper(c) THEN Chr(Ord[c] + 32) ELSE c

Lower(s) == [ k \in 1..Len(s) |-> LowerChar(s[k]) ]

\* s[from:] (1-based, inclusive).
Drop(s, from) == SubSeq(s, from, Len(s))

\* str.lstrip / str.rstrip / str.strip
RECURSIVE LStrip(_)
LStrip(s) == IF s # <<>> /\ IsSpace(Head(s)) THEN LStrip(Tail(s)) ELSE s

RECURSIVE RStrip(_)
RStrip(s) == IF s # <<>> /\ IsSpace(s[Len(s)]) THEN RStrip(SubSeq(s, 1, Len(s) - 1)) ELSE s

Strip(s) == RStrip(LStrip(s))

\* The longest leading run of characters of the class (a greedy [..]+ at the start).
RECURSIVE LeadingRun(_)
LeadingRun(s) ==
    IF s # <<>> /\ IsTokenChar(Head(s)) THEN <<Head(s)>> \o LeadingRun(Tail(s)) ELSE <<>>

\* str.startswith
StartsWith(s, p) == Len(s) >= Len(p) /\ SubSeq(s, 1, Len(p)) = p

\* p in s
RECURSIVE Contains(_, _)
Contains(s, p) ==
    IF Len(s) < Len(p) THEN FALSE
    ELSE StartsWith(s, p) \/ Contains(Tail(s), p)

\* a < b on str: the code-point order, a proper prefix first.
RECURSIVE StrLess(_, _)
StrLess(a, b) ==
    IF b = <<>> THEN FALSE
    ELSE IF a = <<>> THEN TRUE
    ELSE IF Ord[Head(a)] # Ord[Head(b)] THEN Ord[Head(a)] < Ord[Head(b)]
    ELSE StrLess(Tail(a), Tail(b))

\* Python's None, as a raw token (a missing cell of a row).
None == << "<None>" >>

----------------------------------------------------------------------------
(* normalize_device_token and classify_node                                *)

\* re.match(r"^\s*([A-Za-z0-9_\-]+)", t): group 1, or <<>> when there is no match.
MatchToken(t) == LeadingRun(LStrip(t))

normalize_device_token(tok) ==
    IF tok = None \/ tok = <<>> THEN <<>>
    ELSE LET t == Strip(tok)
             m == MatchToken(t)
         IN  IF m # <<>> THEN m ELSE t

\* classify_node with the server rule tried before the workstation rule.
classify_node_ServerFirst(name) ==
    LET ln == Lower(name)
    IN  IF StartsWith(ln, <<"s","w","-">>)
           \/ (StartsWith(ln, <<"s","w">>) /\ Len(ln) > 2 /\ IsDigit(ln[3]))
        THEN "switch"
        ELSE IF StartsWith(ln, <<"b","u","t","-","t","o","o","l">>)
                \/ StartsWith(ln, <<"s","e","r","-">>)
                \/ Contains(ln, <<"t","o","o","l">>)
        THEN "server"
        ELSE IF Contains(ln, <<"w","s","s">>)
        THEN "workstation"
        ELSE "other"

classify_node(name) ==
    LET ln == Lower(name)
    IN  IF StartsWith(ln, <<"s","w","-">>)
           \/ (StartsWith(ln, <<"s","w">>) /\ Len(ln) > 2 /\ IsDigit(ln[3]))
        THEN "switch"
        ELSE IF Contains(ln, <<"w","s","s">>)
                \/ StartsWith(ln, <<"b","u","t","-","w","s","s">>)
                \/ StartsWith(ln, <<"w","s","s">>)
        THEN "workstation"
        ELSE IF StartsWith(ln, <<"b","u","t","-","t","o","o","l">>)
                \/ StartsWith(ln, <<"s","e","r","-">>)
                \/ Contains(ln, <<"t","o","o","l">>)
        THEN "server"
        ELSE "other"

----------------------------------------------------------------------------
(* read_edges                                                              *)

\* The pair kept as it was read: tuple((a, b)).
SortedPair_AsRead(a, b) == <<a, b>>

\* tuple(sorted((a, b)))
SortedPair(a, b) == IF StrLess(b, a) THEN <<b, a>> ELSE <<a, b>>

\* The loop body with the nodes added before the `a == b` test.
ReadRowStep_NodesBeforeTest(ns, es, row) ==
    LET a_raw == row[1]
        b_raw == row[2]
    IN  IF a_raw = None \/ a_raw = <<>> \/ b_raw = None \/ b_raw = <<>> THEN <<ns, es>>
        ELSE LET a == normalize_device_token(a_raw)
                 b == normalize_device_token(b_raw)
             IN  IF a = <<>> \/ b = <<>> THEN <<ns, es>>
                 ELSE IF a = b THEN << ns \cup {a}, es >>
                 ELSE << ns \cup {a, b}, es \cup {SortedPair(a, b)} >>

\* The loop body adding only the first endpoint to the node set.
ReadRowStep_OneNode(ns, es, row) ==
    LET a_raw == row[1]
        b_raw == row[2]
    IN  IF a_raw = None \/ a_raw = <<>> \/ b_raw = None \/ b_raw = <<>> THEN <<ns, es>>
        ELSE LET a == normalize_device_token(a_raw)
                 b == normalize_device_token(b_raw)
             IN  IF a = <<>> \/ b = <<>> \/ a = b THEN <<ns, es>>
                 ELSE << ns \cup {a}, es \cup {SortedPair(a, b)} >>

\* `not a_raw`: None or the empty string.
IsFalsy(raw) == raw = None \/ raw = <<>>

\* One iteration of `for row in reader` on the pair of cells of the row:
\* the new <<nodes, edges>>.
ReadRowStep(ns, es, row) ==
    LET a_raw == row[1]
        b_raw == row[2]
    IN  IF IsFalsy(a_raw) \/ IsFalsy(b_raw) THEN <<ns, es>>
        ELSE LET a == normalize_device_token(a_raw)
                 b == normalize_device_token(b_raw)
             IN  IF a = <<>> \/ b = <<>> \/ a = b THEN <<ns, es>>
                 ELSE << ns \cup {a, b}, es \cup {SortedPair(a, b)} >>

\* e < f on tuples of two str.
PairLess(e, f) == StrLess(e[1], f[1]) \/ (e[1] = f[1] /\ StrLess(e[2], f[2]))

\* [{"a": e[0], "b": e[1]} for e in sorted(edges)]
RECURSIVE SortedEdgeList(_)
SortedEdgeList(es) ==
    IF es = {} THEN <<>>
    ELSE LET m == CHOOSE e \in es : \A f \in es \ {e} : PairLess(e, f)
         IN  << [a |-> m[1], b |-> m[2]] >> \o SortedEdgeList(es \ {m})

----------------------------------------------------------------------------
(* assign_layers                                                           *)

\* float("inf"): above every hop count.
Inf == 1000000

\* adj[n] after the loop over edges.
Adj(el, n) ==
    { el[k].b : k \in { j \in 1..Len(el) : el[j].a = n } }
        \cup { el[k].a : k \in { j \in 1..Len(el) : el[j].b = n } }

\* The lists a set can be iterated as (the iteration order of a set, and of a
\* dict built from one, is not fixed by the program).
RECURSIVE Orderings(_)
Orderings(S) ==
    IF S = {} THEN { <<>> }
    ELSE UNION { { <<x>> \o r : r \in Orderings(S \ {x}) } : x \in S }

OfRole(ns, r) == { n \in ns : classify_node(n) = r }

\* The selection with the switches tried before the servers.
SeedLists_SwitchFirst(ns) ==
    IF OfRole(ns, "switch") # {} THEN Orderings(OfRole(ns, "switch"))
    ELSE IF OfRole(ns, "server") # {} THEN Orderings(OfRole(ns, "server"))
    ELSE IF ns # {} THEN { <<n>> : n \in ns }
    ELSE { <<>> }

\* The selection keeping one server, or one switch, only.
SeedLists_OneOnly(ns) ==
    IF OfRole(ns, "server") # {} THEN { <<n>> : n \in OfRole(ns, "server") }
    ELSE IF OfRole(ns, "switch") # {} THEN { <<n>> : n \in OfRole(ns, "switch") }
    ELSE IF ns # {} THEN { <<n>> : n \in ns }
    ELSE { <<>> }

\* The lists `seeds` can be after the three selection statements.
SeedLists(ns) ==
    IF OfRole(ns, "server") # {} THEN Orderings(OfRole(ns, "server"))
    ELSE IF OfRole(ns, "switch") # {} THEN Orderings(OfRole(ns, "switch"))
    ELSE IF ns # {} THEN { <<n>> : n \in ns }
    ELSE { <<>> }

SeqToSet(sq) == { sq[k] : k \in 1..Len(sq) }

\* The inner loop with `dist[v] = dist[u]`.
RECURSIVE Relax_NoIncrement(_, _, _, _)
Relax_NoIncrement(d, qu, u, vs) ==
    IF vs = <<>> THEN <<d, qu>>
    ELSE LET v == Head(vs)
         IN  IF d[v] > d[u] + 1
             THEN Relax_NoIncrement([d EXCEPT ![v] = d[u]], Append(qu, v), u, Tail(vs))
             ELSE Relax_NoIncrement(d, qu, u, Tail(vs))

\* The inner loop `for v in adj.get(u, [])`, over the neighbours in the order vs:
\* the new <<dist, q>>.
RECURSIVE Relax(_, _, _, _)
Relax(d, qu, u, vs) ==
    IF vs = <<>> THEN <<d, qu>>
    ELSE LET v == Head(vs)
         IN  IF d[v] > d[u] + 1
             THEN Relax([d EXCEPT ![v] = d[u] + 1], Append(qu, v), u, Tail(vs))
             ELSE Relax(d, qu, u, Tail(vs))

SetMin(S) == CHOOSE x \in S : \A y \in S : x <= y

SetMax(S) == CHOOSE x \in S : \A y \in S : x >= y

Values(d) == { d[n] : n \in DOMAIN d }

\* The normalisation that leaves the unreachable nodes at infinity.
NormalizedDist_KeepInf(d) ==
    LET finite == { x \in { d[n] : n \in DOMAIN d } : x # Inf }
        min_d  == IF finite # {} THEN CHOOSE x \in finite : \A y \in finite : x <= y ELSE 0
    IN  [ n \in DOMAIN d |-> IF d[n] = Inf THEN Inf ELSE d[n] - min_d ]

\* Lines 150-156: unreachable nodes to 0, the others less the least finite distance.
NormalizedDist(d) ==
    LET finite == { x \in Values(d) : x # Inf }
        min_d  == IF finite # {} THEN SetMin(finite) ELSE 0
    IN  [ n \in DOMAIN d |-> IF d[n] = Inf THEN 0 ELSE d[n] - min_d ]

\* No workstation is moved.
PushedDist_Skip(d) == d

\* Lines 158-161: workstations to the greatest distance.
PushedDist(d) ==
    LET max_d == IF DOMAIN d # {} THEN SetMax(Values(d)) ELSE 0
    IN  [ n \in DOMAIN d |->
            IF classify_node(n) = "workstation"
            THEN (IF d[n] >= max_d THEN d[n] ELSE max_d)
            ELSE d[n] ]

\* The values are returned as they are.
ReindexedDist_Skip(d) == d

\* The re-index over sorted(dist.values()), repeated values kept: each value to
\* the last index it has in that list.
ReindexedDist_NoSet(d) ==
    [ n \in DOMAIN d |-> Cardinality({ m \in DOMAIN d : d[m] <= d[n] }) - 1 ]

\* Lines 163-166: each value to its index among the sorted distinct values.
ReindexedDist(d) ==
    [ n \in DOMAIN d |-> Cardinality({ x \in Values(d) : x < d[n] }) ]

----------------------------------------------------------------------------
(* layout_positions                                                        *)

margin_x == 80
margin_y == 80
step_x == 240
step_y == 110
box_w == 180
box_h == 44

\* The role names as str, for the comparison of sort keys.
RoleChars(r) ==
    CASE r = "switch"      -> <<"s","w","i","t","c","h">>
      [] r = "workstation" -> <<"w","o","r","k","s","t","a","t","i","o","n">>
      [] r = "server"      -> <<"s","e","r","v","e","r">>
      [] OTHER             -> <<"o","t","h","e","r">>

\* The sort key without the role.
KeyLess_IdOnly(x, y) == StrLess(x, y)

\* (classify_node(x), x) < (classify_node(y), y)
KeyLess(x, y) ==
    LET rx == RoleChars(classify_node(x))
        ry == RoleChars(classify_node(y))
    IN  StrLess(rx, ry) \/ (rx = ry /\ StrLess(x, y))

\* The index ix of the column of layer value l in `ordered`.
ColumnIndex(lm, l) == Cardinality({ x \in Values(lm) : x < l })

\* The index iy of node n in its sorted column.
RowIndex(lm, n) ==
    Cardinality({ m \in DOMAIN lm : lm[m] = lm[n] /\ KeyLess(m, n) })

\* positions
Positions(lm, ns) ==
    [ n \in ns |-> << margin_x + ColumnIndex(lm, lm[n]) * step_x,
                      margin_y + RowIndex(lm, n) * step_y >> ]

ColumnSize(lm, ns, l) == Cardinality({ n \in ns : lm[n] = l })

UsedLayers(lm, ns) == { lm[n] : n \in ns }

\* The canvas without the two margins on each axis.
Canvas_NoMargins(lm, ns) ==
    LET ncols  == Cardinality(UsedLayers(lm, ns))
        tallest == IF ncols = 0 THEN 1
                   ELSE SetMax({ ColumnSize(lm, ns, l) : l \in UsedLayers(lm, ns) })
    IN  << (IF ncols - 1 > 0 THEN ncols - 1 ELSE 0) * step_x + box_w,
           (tallest - 1) * step_y + box_h >>

\* The canvas with the height taken from the number of columns.
Canvas_HeightFromColumns(lm, ns) ==
    LET ncols  == Cardinality(UsedLayers(lm, ns))
    IN  << margin_x * 2 + (IF ncols - 1 > 0 THEN ncols - 1 ELSE 0) * step_x + box_w,
           margin_y * 2 + (IF ncols - 1 > 0 THEN ncols - 1 ELSE 0) * step_y + box_h >>

\* <<canvas_w, canvas_h>>
Canvas(lm, ns) ==
    LET ncols  == Cardinality(UsedLayers(lm, ns))
        tallest == IF ncols = 0 THEN 1
                   ELSE SetMax({ ColumnSize(lm, ns, l) : l \in UsedLayers(lm, ns) })
    IN  << margin_x * 2 + (IF ncols - 1 > 0 THEN ncols - 1 ELSE 0) * step_x + box_w,
           margin_y * 2 + (tallest - 1) * step_y + box_h >>

----------------------------------------------------------------------------
(* render_svg                                                              *)

\* One element of the list `parts`: what it is, the identifiers it is about
\* (<<>> where there is none) and the coordinates formatted into it.
Part(kind, a, b, at) == [kind |-> kind, a |-> a, b |-> b, at |-> at]

\* sorted(nodes)
RECURSIVE SortedNodes(_)
SortedNodes(ns) ==
    IF ns = {} THEN <<>>
    ELSE LET m == CHOOSE n \in ns : \A o \in ns \ {n} : StrLess(n, o)
         IN  <<m>> \o SortedNodes(ns \ {m})

\* The loop `for e in edges`: a line between the centres of the two boxes,
\* none for an edge with an endpoint that has no position.
RECURSIVE EdgeLines(_, _)
EdgeLines(el, p) ==
    IF el = <<>> THEN <<>>
    ELSE LET e == Head(el)
         IN  (IF e.a \notin DOMAIN p \/ e.b \notin DOMAIN p THEN <<>>
              ELSE << Part("line", e.a, e.b,
                           << p[e.a][1] + box_w \div 2, p[e.a][2] + box_h \div 2,
                              p[e.b][1] + box_w \div 2, p[e.b][2] + box_h \div 2 >>) >>)
             \o EdgeLines(Tail(el), p)

\* The loop `for n in sorted(nodes)`: the rectangle, then the label.
RECURSIVE NodeBoxes(_, _)
NodeBoxes(sn, p) ==
    IF sn = <<>> THEN <<>>
    ELSE LET n == Head(sn)
         IN  << Part("node", n, <<>>, p[n]),
                Part("label", n, <<>>, << p[n][1] + 8, p[n][2] + box_h \div 2 + 5 >>) >>
             \o NodeBoxes(Tail(sn), p)

\* The legend group: the heading and a swatch and a name for each role.
Legend(w) ==
    LET lx == w - 220
        ly == 20
        keys == << "server", "switch", "workstation", "other" >>
        Entry(k) == << Part("legend_swatch", RoleChars(keys[k]), <<>>,
                            << lx, ly + 16 + (k - 1) * 22 >>),
                       Part("legend_name", RoleChars(keys[k]), <<>>,
                            << lx + 20, ly + 16 + (k - 1) * 22 + 12 >>) >>
    IN  << Part("legend_open", <<>>, <<>>, <<>>),
           Part("legend_heading", <<>>, <<>>, << lx, ly >>) >>
        \o Entry(1) \o Entry(2) \o Entry(3) \o Entry(4)
        \o << Part("legend_close", <<>>, <<>>, <<>>) >>

\* The list with the node boxes appended before the edge lines.
SvgParts_NodesFirst(ns, el, lm) ==
    LET p == Positions(lm, ns)
        c == Canvas(lm, ns)
    IN  << Part("header", <<>>, <<>>, c),
           Part("background", <<>>, <<>>, <<0, 0>>),
           Part("title", <<>>, <<>>, <<16, 20>>) >>
        \o NodeBoxes(SortedNodes(ns), p)
        \o EdgeLines(el, p)
        \o Legend(c[1])
        \o << Part("end", <<>>, <<>>, <<>>) >>

\* The list `parts` render_svg joins and writes, lines 199-236.
SvgParts(ns, el, lm) ==
    LET p == Positions(lm, ns)
        c == Canvas(lm, ns)
    IN  << Part("header", <<>>, <<>>, c),
           Part("background", <<>>, <<>>, <<0, 0>>),
           Part("title", <<>>, <<>>, <<16, 20>>) >>
        \o EdgeLines(el, p)
        \o NodeBoxes(SortedNodes(ns), p)
        \o Legend(c[1])
        \o << Part("end", <<>>, <<>>, <<>>) >>

----------------------------------------------------------------------------
(* SpecTok: the two pure functions applied to bounded raw tokens           *)

\* The pieces raw tokens are built from.
Pieces ==
    { <<"s","w">>, <<"S","W">>, <<"-">>, <<"1">>, <<"_">>, <<"x">>,
      <<"w","s","s">>, <<"t","o","o","l">>, <<"T","o","O","L">>,
      <<"b","u","t","-">>, <<"s","e","r","-">>, <<" ">>, <<":">> }

\* A raw token is at most MaxPieces pieces.
MaxPieces == 3

RECURSIVE Concat(_)
Concat(ps) == IF ps = <<>> THEN <<>> ELSE Head(ps) \o Concat(Tail(ps))

Tokens ==
    {None} \cup { Concat(ps) : ps \in UNION { [1..n -> Pieces] : n \in 0..MaxPieces } }

\* An empty dict.
EmptyMap == [ n \in {} |-> 0 ]

\* No file at the path.
NoCsv == [exists |-> FALSE, keys |-> FALSE, rows |-> <<>>]

NoFirst == [status |-> -1, layers |-> EmptyMap, pos |-> EmptyMap]

\* The pipeline before anything ran.
PipeIdle ==
    /\ run = 1
    /\ i = 0
    /\ nodes = {}
    /\ edges = {}
    /\ edges_list = <<>>
    /\ seeds = <<>>
    /\ dist = EmptyMap
    /\ q = <<>>
    /\ layers_map = EmptyMap
    /\ pos = EmptyMap
    /\ canvas = <<0, 0>>
    /\ svg = FALSE
    /\ parts = <<>>
    /\ dot = FALSE
    /\ status = -1
    /\ first = NoFirst

TokIdle ==
    /\ token = None
    /\ tpc = "idle"
    /\ norm1 = <<>>
    /\ norm2 = <<>>
    /\ role = "none"

InitTok ==
    /\ token \in Tokens
    /\ tpc = "start"
    /\ norm1 = <<>>
    /\ norm2 = <<>>
    /\ role = "none"
    /\ csv = NoCsv
    /\ no_dot = FALSE
    /\ pc = "idle"
    /\ PipeIdle

\* a = normalize_device_token(a_raw)
Normalize ==
    /\ tpc = "start"
    /\ norm1' = normalize_device_token(token)
    /\ tpc' = "normalized"
    /\ UNCHANGED <<token, norm2, role>>
    /\ UNCHANGED pipevars

\* normalising the identifier once more
NormalizeAgain ==
    /\ tpc = "normalized"
    /\ norm2' = normalize_device_token(norm1)
    /\ tpc' = "renormalized"
    /\ UNCHANGED <<token, norm1, role>>
    /\ UNCHANGED pipevars

\* t = classify_node(n)
Classify ==
    /\ tpc = "renormalized"
    /\ role' = classify_node(norm1)
    /\ tpc' = "classified"
    /\ UNCHANGED <<token, norm1, norm2>>
    /\ UNCHANGED pipevars

NextTok == Normalize \/ NormalizeAgain \/ Classify

SpecTok == InitTok /\ [][NextTok]_vars

----------------------------------------------------------------------------
(* Spec: main, from the CSV file to the artifacts, run twice on one input  *)

\* The rows a table is made of, each the pair of cells of the two device
\* columns: links among a, b, tool and wss (one cell with a port annotation),
\* a row whose endpoints normalise to the same identifier, a row with a missing
\* cell and a row with a blank cell.
RowSet ==
    { << <<"a">>, <<"b">> >>,
      << <<"b">>, <<"a">> >>,
      << <<"a",":","1">>, <<"b">> >>,
      << <<"b">>, <<"t","o","o","l">> >>,
      << <<"t","o","o","l">>, <<"a">> >>,
      << <<"b">>, <<"w","s","s">> >>,
      << <<"a">>, <<"a",":","1">> >>,
      << None, <<"b">> >>,
      << <<"a">>, <<" ">> >> }

\* A table has at most MaxRows rows.
MaxRows == 2

RowSeqs == UNION { [1..n -> RowSet] : n \in 0..MaxRows }

\* The input files: none, one with fewer than two columns, or a table of rows
\* (each the pair of cells of the two device columns).
Csvs ==
    { NoCsv, [exists |-> TRUE, keys |-> FALSE, rows |-> <<>>] }
        \cup { [exists |-> TRUE, keys |-> TRUE, rows |-> r] : r \in RowSeqs }

Init ==
    /\ TokIdle
    /\ csv \in Csvs
    /\ no_dot \in BOOLEAN
    /\ pc = "main"
    /\ PipeIdle

\* main, lines 272-280: the file is missing (return 2) or read_edges is called.
MainStart ==
    /\ pc = "main"
    /\ IF ~csv.exists
       THEN /\ status' = 2
            /\ pc' = "exit"
       ELSE /\ status' = status
            /\ pc' = "read"
    /\ UNCHANGED <<csv, no_dot, run, i, nodes, edges, edges_list, seeds, dist, q,
                   layers_map, pos, canvas, svg, parts, dot, first>>
    /\ UNCHANGED tokvars

\* read_edges, lines 97-104: no two columns to read, return nodes, [].
ReadNoKeys ==
    /\ pc = "read"
    /\ ~csv.keys
    /\ edges_list' = <<>>
    /\ pc' = "parsed"
    /\ UNCHANGED <<csv, no_dot, run, i, nodes, edges, seeds, dist, q,
                   layers_map, pos, canvas, svg, parts, dot, status, first>>
    /\ UNCHANGED tokvars

\* read_edges, lines 82-93 and 105-116: one row.
ReadRow ==
    /\ pc = "read"
    /\ csv.keys
    /\ i < Len(csv.rows)
    /\ LET r == ReadRowStep(nodes, edges, csv.rows[i + 1])
       IN  /\ nodes' = r[1]
           /\ edges' = r[2]
    /\ i' = i + 1
    /\ UNCHANGED <<csv, no_dot, run, pc, edges_list, seeds, dist, q,
                   layers_map, pos, canvas, svg, parts, dot, status, first>>
    /\ UNCHANGED tokvars

\* read_edges, lines 118-119: the rows are exhausted, return the sorted list.
ReadReturn ==
    /\ pc = "read"
    /\ csv.keys
    /\ i = Len(csv.rows)
    /\ edges_list' = SortedEdgeList(edges)
    /\ pc' = "parsed"
    /\ UNCHANGED <<csv, no_dot, run, i, nodes, edges, seeds, dist, q,
                   layers_map, pos, canvas, svg, parts, dot, status, first>>
    /\ UNCHANGED tokvars

\* main without the test for an empty edge list.
MainParsed_NoEdgeCheck ==
    /\ pc = "parsed"
    /\ status' = status
    /\ pc' = "assign"
    /\ UNCHANGED <<csv, no_dot, run, i, nodes, edges, edges_list, seeds, dist, q,
                   layers_map, pos, canvas, svg, parts, dot, first>>
    /\ UNCHANGED tokvars

\* main, lines 281-285: no edges (return 1), or assign_layers is called.
MainParsed ==
    /\ pc = "parsed"
    /\ IF edges_list = <<>>
       THEN /\ status' = 1
            /\ pc' = "exit"
       ELSE /\ status' = status
            /\ pc' = "assign"
    /\ UNCHANGED <<csv, no_dot, run, i, nodes, edges, edges_list, seeds, dist, q,
                   layers_map, pos, canvas, svg, parts, dot, first>>
    /\ UNCHANGED tokvars

\* assign_layers, lines 125-141: adjacency, types, seeds, dist and the queue.
AssignStart ==
    /\ pc = "assign"
    /\ \E sl \in SeedLists(nodes) :
         /\ seeds' = sl
         /\ dist' = [ n \in nodes |-> IF n \in SeqToSet(sl) THEN 0 ELSE Inf ]
         /\ q' = sl
    /\ pc' = "bfs"
    /\ UNCHANGED <<csv, no_dot, run, i, nodes, edges, edges_list,
                   layers_map, pos, canvas, svg, parts, dot, status, first>>
    /\ UNCHANGED tokvars

\* assign_layers, lines 143-148: one iteration of `while q`.
BfsStep ==
    /\ pc = "bfs"
    /\ q # <<>>
    /\ LET u == Head(q)
       IN  \E vs \in Orderings(Adj(edges_list, u)) :
             LET r == Relax(dist, Tail(q), u, vs)
             IN  /\ dist' = r[1]
                 /\ q' = r[2]
    /\ UNCHANGED <<csv, no_dot, run, pc, i, nodes, edges, edges_list, seeds,
                   layers_map, pos, canvas, svg, parts, dot, status, first>>
    /\ UNCHANGED tokvars

\* assign_layers, lines 150-156: the queue is empty; normalise the distances.
NormalizeDist ==
    /\ pc = "bfs"
    /\ q = <<>>
    /\ dist' = NormalizedDist(dist)
    /\ pc' = "normalized"
    /\ UNCHANGED <<csv, no_dot, run, i, nodes, edges, edges_list, seeds, q,
                   layers_map, pos, canvas, svg, parts, dot, status, first>>
    /\ UNCHANGED tokvars

\* assign_layers, lines 158-161.
PushWorkstations ==
    /\ pc = "normalized"
    /\ dist' = PushedDist(dist)
    /\ pc' = "pushed"
    /\ UNCHANGED <<csv, no_dot, run, i, nodes, edges, edges_list, seeds, q,
                   layers_map, pos, canvas, svg, parts, dot, status, first>>
    /\ UNCHANGED tokvars

\* assign_layers, lines 163-167: re-index and return.
Reindex ==
    /\ pc = "pushed"
    /\ dist' = ReindexedDist(dist)
    /\ layers_map' = ReindexedDist(dist)
    /\ pc' = "layered"
    /\ UNCHANGED <<csv, no_dot, run, i, nodes, edges, edges_list, seeds, q,
                   pos, canvas, svg, parts, dot, status, first>>
    /\ UNCHANGED tokvars

\* main line 286, render_svg: layout_positions, then the document is written.
RenderSvg ==
    /\ pc = "layered"
    /\ pos' = Positions(layers_map, nodes)
    /\ canvas' = Canvas(layers_map, nodes)
    /\ parts' = SvgParts(nodes, edges_list, layers_map)
    /\ svg' = TRUE
    /\ pc' = "svg_written"
    /\ UNCHANGED <<csv, no_dot, run, i, nodes, edges, edges_list, seeds, dist, q,
                   layers_map, dot, status, first>>
    /\ UNCHANGED tokvars

\* main, lines 289-293: render_dot unless --no-dot, return 0.
MainFinish ==
    /\ pc = "svg_written"
    /\ dot' = ~no_dot
    /\ status' = 0
    /\ pc' = "exit"
    /\ UNCHANGED <<csv, no_dot, run, i, nodes, edges, edges_list, seeds, dist, q,
                   layers_map, pos, canvas, svg, parts, first>>
    /\ UNCHANGED tokvars

\* The program is started a second time on the same file with the same arguments.
SecondRun ==
    /\ pc = "exit"
    /\ run = 1
    /\ first' = [status |-> status, layers |-> layers_map, pos |-> pos]
    /\ run' = 2
    /\ pc' = "main"
    /\ i' = 0
    /\ nodes' = {}
    /\ edges' = {}
    /\ edges_list' = <<>>
    /\ seeds' = <<>>
    /\ dist' = EmptyMap
    /\ q' = <<>>
    /\ layers_map' = EmptyMap
    /\ pos' = EmptyMap
    /\ canvas' = <<0, 0>>
    /\ svg' = FALSE
    /\ parts' = <<>>
    /\ dot' = FALSE
    /\ status' = -1
    /\ UNCHANGED <<csv, no_dot>>
    /\ UNCHANGED tokvars

Next ==
    \/ MainStart
    \/ ReadNoKeys
    \/ ReadRow
    \/ ReadReturn
    \/ MainParsed
    \/ AssignStart
    \/ BfsStep
    \/ NormalizeDist
    \/ PushWorkstations
    \/ Reindex
    \/ RenderSvg
    \/ MainFinish
    \/ SecondRun

Spec == Init /\ [][Next]_vars

----------------------------------------------------------------------------
(* SpecFn: assign_layers and layout_positions called on a given graph      *)

\* The identifiers graphs are drawn from: two of role other, two servers, a
\* switch and a workstation.
Names ==
    { <<"a">>, <<"b">>, <<"t","o","o","l">>, <<"s","e","r","-">>,
      <<"s","w","1">>, <<"w","s","s">> }

\* A graph has at most MaxGraph nodes.
MaxGraph == 4

NodeSets == { ns \in SUBSET Names : Cardinality(ns) <= MaxGraph }

PairsOf(ns) == { SortedPair(e[1], e[2]) : e \in { f \in ns \X ns : f[1] # f[2] } }

\* read_edges adds a node only as an endpoint of an edge it adds.
NoIsolated(ns, es) == \A n \in ns : \E e \in es : n \in {e[1], e[2]}

InitFn ==
    /\ TokIdle
    /\ csv = NoCsv
    /\ no_dot = FALSE
    /\ pc = "assign"
    /\ run = 1
    /\ i = 0
    /\ nodes \in NodeSets
    /\ edges \in SUBSET PairsOf(nodes)
    /\ NoIsolated(nodes, edges)
    /\ edges_list = SortedEdgeList(edges)
    /\ seeds = <<>>
    /\ dist = EmptyMap
    /\ q = <<>>
    /\ layers_map = EmptyMap
    /\ pos = EmptyMap
    /\ canvas = <<0, 0>>
    /\ svg = FALSE
    /\ parts = <<>>
    /\ dot = FALSE
    /\ status = -1
    /\ first = NoFirst

\* layout_positions(layers_map, nodes), lines 169-190.
LayoutPositions ==
    /\ pc = "layered"
    /\ pos' = Positions(layers_map, nodes)
    /\ canvas' = Canvas(layers_map, nodes)
    /\ pc' = "laid_out"
    /\ UNCHANGED <<csv, no_dot, run, i, nodes, edges, edges_list, seeds, dist, q,
                   layers_map, svg, parts, dot, status, first>>
    /\ UNCHANGED tokvars

NextFn ==
    \/ AssignStart
    \/ BfsStep
    \/ NormalizeDist
    \/ PushWorkstations
    \/ Reindex
    \/ LayoutPositions

SpecFn == InitFn /\ [][NextFn]_vars

----------------------------------------------------------------------------
(* Properties of the pure functions (SpecTok)                              *)

\* A non-empty string made only of letters, digits, hyphen and underscore.
IsCanonical(s) ==
    /\ s # None
    /\ s # <<>>
    /\ \A k \in 1..Len(s) :
          \/ \E j \in 1..Len(CharTable) : /\ CharTable[j] = s[k]
                                          /\ \/ j + 31 \in 48..57
                                             \/ j + 31 \in 65..90
                                             \/ j + 31 \in 97..122
          \/ s[k] \in {"-", "_"}

\* C9 (idempotent normalization): normalising the result of
\* normalize_device_token once more gives the same string, and a non-empty raw
\* token made only of letters, digits, hyphen and underscore is returned as it is.
C9_IdempotentNormalization ==
    /\ tpc \in {"renormalized", "classified"} => norm2 = norm1
    /\ (tpc # "start" /\ IsCanonical(token)) => norm1 = token

\* A raw token that normalisation really changed (an annotation or blanks were
\* cut off), normalised a second time.
C9_Witness ==
    /\ tpc = "renormalized"
    /\ norm1 # <<>>
    /\ norm1 # token
    /\ Len(token) > Len(norm1) + 1
    /\ norm2 = norm1

\* Pattern p (lower case) sits in s at position k, letter case ignored.
MatchesAt(s, p, k) ==
    /\ k + Len(p) - 1 <= Len(s)
    /\ \A j \in 1..Len(p) :
          LET c == s[k + j - 1]
          IN  c = p[j] \/ (c \in CharSet /\ Ord[c] \in 65..90 /\ Chr(Ord[c] + 32) = p[j])

HasPrefix(s, p) == MatchesAt(s, p, 1)

HasInfix(s, p) == \E k \in 1..Len(s) : MatchesAt(s, p, k)

SwitchRule(s) ==
    \/ HasPrefix(s, <<"s","w","-">>)
    \/ \E d \in {"0","1","2","3","4","5","6","7","8","9"} : HasPrefix(s, <<"s","w",d>>)

WorkstationRule(s) == HasInfix(s, <<"w","s","s">>)

ServerRule(s) ==
    \/ HasPrefix(s, <<"b","u","t","-","t","o","o","l">>)
    \/ HasPrefix(s, <<"s","e","r","-">>)
    \/ HasInfix(s, <<"t","o","o","l">>)

\* C10 (classification precedence): classify_node gives exactly one of the four
\* roles, the one of the first matching rule in the order switch, workstation,
\* server, else other, whatever the letter case of the identifier.
C10_ClassificationPrecedence ==
    tpc = "classified" =>
        /\ role \in {"switch", "workstation", "server", "other"}
        /\ role = "switch" <=> SwitchRule(norm1)
        /\ role = "workstation" <=> (~SwitchRule(norm1) /\ WorkstationRule(norm1))
        /\ role = "server" <=>
              (~SwitchRule(norm1) /\ ~WorkstationRule(norm1) /\ ServerRule(norm1))
        /\ role = "other" <=>
              (~SwitchRule(norm1) /\ ~WorkstationRule(norm1) /\ ~ServerRule(norm1))

\* An identifier with capital letters that matches the workstation rule and the
\* server rule but not the switch rule, classified.
C10_Witness ==
    /\ tpc = "classified"
    /\ \E k \in 1..Len(norm1) : Ord[norm1[k]] \in 65..90
    /\ WorkstationRule(norm1)
    /\ ServerRule(norm1)
    /\ role = "workstation"

----------------------------------------------------------------------------
(* Properties of read_edges (Spec)                                         *)

\* read_edges on a whole table: the <<nodes, edges>> after every row.
RECURSIVE ReadAll(_, _, _)
ReadAll(ns, es, rows) ==
    IF rows = <<>> THEN <<ns, es>>
    ELSE LET r == ReadRowStep(ns, es, Head(rows))
         IN  ReadAll(r[1], r[2], Tail(rows))

\* The table with the two cells of row k exchanged.
SwapRow(rows, k) == [rows EXCEPT ![k] = << rows[k][2], rows[k][1] >>]

\* The table with row k once more at the end.
RepeatRow(rows, k) == Append(rows, rows[k])

\* The table in the order given by the list of indices p.
Reorder(rows, p) == [ k \in 1..Len(rows) |-> rows[p[k]] ]

\* read_edges has just returned from the loop over the rows.
RowsRead == csv.keys /\ pc = "parsed"

\* C7 (edge symmetry and deduplication): the node set and the edge set read
\* from a table are those read from the table with any row (a, b) turned into
\* (b, a), with any row repeated, or with the rows in any other order; every
\* undirected pair is stored once, its endpoints in sorted order, and the
\* returned list holds each stored pair once.
C7_EdgeSymmetryDedup ==
    RowsRead =>
        LET rows == csv.rows
            here == <<nodes, edges>>
        IN  /\ \A k \in 1..Len(rows) : ReadAll({}, {}, SwapRow(rows, k)) = here
            /\ \A k \in 1..Len(rows) : ReadAll({}, {}, RepeatRow(rows, k)) = here
            /\ \A p \in Orderings(1..Len(rows)) : ReadAll({}, {}, Reorder(rows, p)) = here
            /\ \A e \in edges : StrLess(e[1], e[2])
            /\ \A e \in edges : \A f \in edges : {e[1], e[2]} = {f[1], f[2]} => e = f
            /\ Len(edges_list) = Cardinality(edges)
            /\ \A e \in edges : \E k \in 1..Len(edges_list) :
                  edges_list[k].a = e[1] /\ edges_list[k].b = e[2]

\* A table of two rows that name the same link in the two directions, by
\* different raw cells, read into a single edge.
C7_Witness ==
    /\ RowsRead
    /\ Len(csv.rows) = 2
    /\ csv.rows[1] # csv.rows[2]
    /\ csv.rows[1][1] # csv.rows[2][2]
    /\ normalize_device_token(csv.rows[1][1]) = normalize_device_token(csv.rows[2][2])
    /\ normalize_device_token(csv.rows[1][2]) = normalize_device_token(csv.rows[2][1])
    /\ Cardinality(edges) = 1
    /\ Len(edges_list) = 1

\* A row with a missing endpoint, an endpoint that normalises to the empty
\* string, or two endpoints that normalise to the same identifier.
Discarded(row) ==
    \/ row[1] \in {None, <<>>}
    \/ row[2] \in {None, <<>>}
    \/ normalize_device_token(row[1]) = <<>>
    \/ normalize_device_token(row[2]) = <<>>
    \/ normalize_device_token(row[1]) = normalize_device_token(row[2])

\* The rows among the first n that are not discarded.
KeptRows(rows, n) == { k \in 1..n : ~Discarded(rows[k]) }

EndpointsOf(row) == { normalize_device_token(row[1]), normalize_device_token(row[2]) }

\* C8 (row discard): a discarded row adds no node and no edge and does not stop
\* the rows after it from being read: after any number of rows the node set and
\* the edge set are exactly those of the rows that are not discarded.
C8_RowDiscard ==
    (csv.keys /\ pc # "main") =>
        /\ nodes = UNION { EndpointsOf(csv.rows[k]) : k \in KeptRows(csv.rows, i) }
        /\ \A e \in edges : \E k \in KeptRows(csv.rows, i) : {e[1], e[2]} = EndpointsOf(csv.rows[k])
        /\ \A k \in KeptRows(csv.rows, i) : \E e \in edges : {e[1], e[2]} = EndpointsOf(csv.rows[k])
        /\ pc # "read" => i = Len(csv.rows)

\* A table whose first row is discarded (its endpoints normalise to the same
\* identifier) and whose second row is kept, read to the end.
C8_Witness ==
    /\ RowsRead
    /\ Len(csv.rows) = 2
    /\ csv.rows[1][1] # csv.rows[1][2]
    /\ ~IsFalsy(csv.rows[1][1])
    /\ Discarded(csv.rows[1])
    /\ ~Discarded(csv.rows[2])
    /\ Cardinality(edges) = 1
    /\ Cardinality(nodes) = 2

----------------------------------------------------------------------------
(* Properties of the whole run (Spec)                                      *)

\* C1 (determinism): two independent runs on the same input end with the same
\* status, the same layer map and the same position map.
C1_Determinism ==
    (run = 2 /\ pc = "exit") =>
        /\ status = first.status
        /\ layers_map = first.layers
        /\ pos = first.pos

----------------------------------------------------------------------------
(* Properties of assign_layers (SpecFn)                                    *)

\* assign_layers has returned its map.
Returned == pc \in {"layered", "laid_out"}

\* The nodes one edge away from a node of S.
Neighbours(es, S) ==
    { e[2] : e \in { f \in es : f[1] \in S } } \cup { e[1] : e \in { f \in es : f[2] \in S } }

\* The nodes at most k edges away from a node of S.
RECURSIVE Ball(_, _, _)
Ball(es, S, k) ==
    IF k = 0 THEN S
    ELSE LET B == Ball(es, S, k - 1) IN B \cup Neighbours(es, B)

\* The least number of edges on a path from a node of S to n; Inf if there is none.
HopCount(ns, es, S, n) ==
    LET ks == { k \in 0..Cardinality(ns) : n \in Ball(es, S, k) }
    IN  IF ks = {} THEN Inf ELSE CHOOSE k \in ks : \A j \in ks : k <= j

SeedSet == SeqToSet(seeds)

IsDense(S) == S = 0..(Cardinality(S) - 1)

\* The distances after the workstation push, from the hop counts.
PushedHops ==
    PushedDist(NormalizedDist([ n \in nodes |-> HopCount(nodes, edges, SeedSet, n) ]))

\* C2 (layer density): the values of the returned map are exactly 0..k-1, with
\* k = 0 exactly when there is no node.
C2_LayerDensity ==
    Returned =>
        /\ DOMAIN layers_map = nodes
        /\ IsDense(Values(layers_map))
        /\ Values(layers_map) = {} <=> nodes = {}

\* The workstation push left a gap in the distances, and the map was returned.
C2_Witness ==
    /\ Returned
    /\ ~IsDense(Values(PushedHops))
    /\ IsDense(Values(layers_map))

\* C3 (workstation placement): every workstation has the greatest layer of the
\* returned map.
C3_WorkstationPlacement ==
    Returned =>
        \A n \in nodes :
            classify_node(n) = "workstation" =>
                \A m \in nodes : layers_map[m] <= layers_map[n]

\* A workstation one edge from a seed, in a graph with a node two edges from
\* the seed, is returned in layer 2.
C3_Witness ==
    /\ Returned
    /\ \E n \in nodes :
         /\ classify_node(n) = "workstation"
         /\ HopCount(nodes, edges, SeedSet, n) = 1
         /\ layers_map[n] = 2
         /\ \E m \in nodes \ {n} : layers_map[m] = 2

\* The nodes of the components that hold no seed.
Seedless == { n \in nodes : HopCount(nodes, edges, SeedSet, n) = Inf }

\* C4 as stated (seedless component): every node of a component without a seed
\* has layer 0 in the returned map.
C4_SeedlessAllZero ==
    (Returned /\ Seedless # {} /\ SeedSet # {}) =>
        \A n \in Seedless : layers_map[n] = 0

\* C4 as amended: every node of a component without a seed that is not a
\* workstation has layer 0; a workstation there has the greatest layer.
C4_SeedlessNonWorkstationZero ==
    (Returned /\ Seedless # {} /\ SeedSet # {}) =>
        \A n \in Seedless :
            IF classify_node(n) = "workstation"
            THEN \A m \in nodes : layers_map[m] <= layers_map[n]
            ELSE layers_map[n] = 0

\* A component without a seed holding a workstation and another node, beside a
\* component with a seed and a node one edge from it.
C4_Witness ==
    /\ Returned
    /\ \E n \in Seedless : classify_node(n) = "workstation" /\ layers_map[n] = 1
    /\ \E n \in Seedless : classify_node(n) # "workstation" /\ layers_map[n] = 0
    /\ \E n \in nodes \ Seedless : layers_map[n] = 1

\* The queue loop has ended.
BfsEnded == pc = "bfs" /\ q = <<>>

\* C5 (BFS correctness): when the queue loop ends, every node holds the least
\* number of edges from a seed to it, and infinity if no seed reaches it.
C5_BfsShortest ==
    BfsEnded =>
        \A n \in nodes : dist[n] = HopCount(nodes, edges, SeedSet, n)

\* The loop ended on a graph with one seed and a cycle through it: two nodes one
\* edge from the seed are joined to each other (a longer path to each), and a
\* node lies two edges from the seed.
C5_Witness ==
    /\ BfsEnded
    /\ Cardinality(SeedSet) = 1
    /\ \E n \in nodes :
         /\ dist[n] = 1
         /\ Cardinality(Neighbours(edges, {n}) \cap { m \in nodes : dist[m] = 1 }) = 1
    /\ \E n \in nodes : dist[n] = 2
    /\ Cardinality(edges) = Cardinality(nodes)

\* C6 (seed selection): the seeds are the servers if there are any, else the
\* switches if there are any, else one node, else none (and then the map is
\* empty); no seed is listed twice.
C6_SeedSelection ==
    (pc # "assign") =>
        /\ Len(seeds) = Cardinality(SeedSet)
        /\ IF \E n \in nodes : classify_node(n) = "server"
           THEN SeedSet = { n \in nodes : classify_node(n) = "server" }
           ELSE IF \E n \in nodes : classify_node(n) = "switch"
           THEN SeedSet = { n \in nodes : classify_node(n) = "switch" }
           ELSE IF nodes # {}
           THEN Cardinality(SeedSet) = 1 /\ SeedSet \subseteq nodes
           ELSE seeds = <<>> /\ (Returned => layers_map = EmptyMap)

\* No server, a switch and other nodes: the switch alone is the seed.
C6_Witness ==
    /\ Returned
    /\ Cardinality(nodes) >= 3
    /\ \A n \in nodes : classify_node(n) # "server"
    /\ \E n \in nodes : classify_node(n) = "switch" /\ SeedSet = {n}

\* The distance between two layers.
LayerGap(x, y) == IF x >= y THEN x - y ELSE y - x

IsWorkstation(n) == classify_node(n) = "workstation"

\* C17 (layer smoothness): in the returned map, two nodes joined by an edge,
\* neither of them a workstation, have layers at most 1 apart.
C17_LayerSmoothness ==
    Returned =>
        \A e \in edges :
            (~IsWorkstation(e[1]) /\ ~IsWorkstation(e[2])) =>
                LayerGap(layers_map[e[1]], layers_map[e[2]]) <= 1

\* The workstation push left a gap in the distances and the re-index closed it;
\* an edge between two nodes that are not workstations, beyond the gap, joins
\* layers exactly 1 apart, each lower than the distance it had.
C17_Witness ==
    /\ Returned
    /\ ~IsDense(Values(PushedHops))
    /\ \E e \in edges :
         /\ ~IsWorkstation(e[1])
         /\ ~IsWorkstation(e[2])
         /\ LayerGap(layers_map[e[1]], layers_map[e[2]]) = 1
         /\ layers_map[e[1]] < PushedHops[e[1]]
         /\ layers_map[e[2]] < PushedHops[e[2]]

Servers == { n \in nodes : classify_node(n) = "server" }

Switches == { n \in nodes : classify_node(n) = "switch" }

\* The finite distances when the queue loop has ended.
FiniteDist == { dist[n] : n \in { m \in nodes : dist[m] # Inf } }

\* C18 (core at layer 0): with a server in the graph every server is returned
\* in layer 0; with no server but a switch every switch is returned in layer 0;
\* in both cases the least finite distance at the end of the queue loop is 0,
\* so the normalisation subtracts nothing from the hop counts.
C18_CoreAtLayerZero ==
    (Servers # {} \/ Switches # {}) =>
        LET core == IF Servers # {} THEN Servers ELSE Switches
        IN  /\ Returned => \A n \in core : layers_map[n] = 0
            /\ BfsEnded =>
                 /\ FiniteDist # {}
                 /\ \A d \in FiniteDist : d >= 0
                 /\ 0 \in FiniteDist
            /\ pc = "normalized" =>
                 \A n \in nodes :
                     dist[n] = IF n \in Seedless THEN 0
                               ELSE HopCount(nodes, edges, SeedSet, n)

\* Two servers and a switch, the switch away from layer 0: both servers are
\* returned in layer 0.
C18_Witness ==
    /\ Returned
    /\ Cardinality(Servers) = 2
    /\ \A n \in Servers : layers_map[n] = 0
    /\ \E n \in Switches : layers_map[n] > 0

----------------------------------------------------------------------------
(* Properties of layout_positions (SpecFn)                                 *)

\* layout_positions has returned.
LaidOut == pc = "laid_out"

\* C11 (canvas sufficiency): every returned position lies within the canvas,
\* and the node box drawn from it ends within the canvas on both axes.
C11_CanvasSufficiency ==
    LaidOut =>
        \A n \in nodes :
            /\ 0 <= pos[n][1] /\ pos[n][1] <= canvas[1]
            /\ 0 <= pos[n][2] /\ pos[n][2] <= canvas[2]
            /\ pos[n][1] + box_w <= canvas[1]
            /\ pos[n][2] + box_h <= canvas[2]

\* A layout of several columns, one of them of several rows: a box of the last
\* column and a box of the last row of the tallest column end one margin before
\* the canvas does.
C11_Witness ==
    /\ LaidOut
    /\ Cardinality(Values(layers_map)) >= 2
    /\ \E n, m \in nodes : n # m /\ layers_map[n] = layers_map[m]
    /\ \E n \in nodes : pos[n][1] > margin_x /\ pos[n][1] + box_w + margin_x = canvas[1]
    /\ \E n \in nodes : pos[n][2] > margin_y /\ pos[n][2] + box_h + margin_y = canvas[2]

\* The number of columns: the layer values some node has.
NumColumns == Cardinality({ layers_map[n] : n \in nodes })

\* The size of the largest column, 1 when there is no column.
MaxColumnSize ==
    IF NumColumns = 0 THEN 1
    ELSE LET sizes == { Cardinality({ m \in nodes : layers_map[m] = layers_map[n] }) : n \in nodes }
         IN  CHOOSE s \in sizes : \A t \in sizes : t <= s

\* C12 as stated (canvas dimensions): the width is 80*2 + (columns - 1)*240 + 180
\* and the height is 80*2 + (max column size - 1)*110 + 44, for every map, the
\* empty one included.
C12_DimensionsAsStated ==
    LaidOut =>
        /\ canvas[1] = 80 * 2 + (NumColumns - 1) * 240 + 180
        /\ canvas[2] = 80 * 2 + (MaxColumnSize - 1) * 110 + 44

\* C12 as amended (canvas dimensions): the width is 80*2 + max(0, columns - 1)*240
\* + 180, so 340 for the empty map as for a single column; the height is
\* 80*2 + (max column size - 1)*110 + 44, with 1 for the max column size when
\* there is no column.
C12_CanvasDimensions ==
    LaidOut =>
        /\ canvas[1] = 80 * 2 + (IF NumColumns = 0 THEN 0 ELSE NumColumns - 1) * 240 + 180
        /\ canvas[2] = 80 * 2 + (MaxColumnSize - 1) * 110 + 44

\* The layout of the empty map: no column, a canvas of 340 by 204.
C12_Witness ==
    /\ LaidOut
    /\ nodes = {}
    /\ NumColumns = 0
    /\ canvas = <<340, 204>>

\* The place of a role name in the ascending order of the four role names.
RoleRank(r) ==
    CASE r = "other"       -> 0
      [] r = "server"      -> 1
      [] r = "switch"      -> 2
      [] r = "workstation" -> 3

\* m comes before n in ascending (role name, identifier) order.
Before(m, n) ==
    \/ RoleRank(classify_node(m)) < RoleRank(classify_node(n))
    \/ (classify_node(m) = classify_node(n) /\ StrLess(m, n))

\* The rank of the layer of n among the layer values in use.
LayerRank(n) ==
    Cardinality({ v \in { layers_map[m] : m \in nodes } : v < layers_map[n] })

\* The rank of n within its layer.
RankInLayer(n) ==
    Cardinality({ m \in nodes : layers_map[m] = layers_map[n] /\ Before(m, n) })

\* C14 (grid layout): a node is placed at x = 80 + 240*c and y = 80 + 110*r,
\* c the rank of its layer among the layers in use (its layer index, the map
\* being dense) and r its rank within its layer in ascending (role name,
\* identifier) order; no two nodes are placed at the same position.
C14_GridLayout ==
    LaidOut =>
        /\ \A n \in nodes :
             /\ pos[n] = << 80 + 240 * LayerRank(n), 80 + 110 * RankInLayer(n) >>
             /\ LayerRank(n) = layers_map[n]
        /\ \A n, m \in nodes : n # m => pos[n] # pos[m]

\* A layout of several columns where the role decides a row: two nodes of one
\* layer, the one with the smaller identifier placed below the other.
C14_Witness ==
    /\ LaidOut
    /\ Cardinality(Values(layers_map)) >= 2
    /\ \E n, m \in nodes :
         /\ layers_map[n] = layers_map[m]
         /\ StrLess(m, n)
         /\ pos[m][1] = pos[n][1]
         /\ pos[m][2] > pos[n][2]

----------------------------------------------------------------------------
(* Properties of main (Spec)                                               *)

\* main has returned.
Exited == pc = "exit"

\* The table yields no edge: it has no two device columns, or every row of it
\* is discarded.
NoEdgeParsed == ~csv.keys \/ KeptRows(csv.rows, Len(csv.rows)) = {}

\* Nothing has been parsed and nothing layered.
Untouched ==
    /\ i = 0
    /\ nodes = {}
    /\ edges = {}
    /\ edges_list = <<>>
    /\ seeds = <<>>
    /\ dist = EmptyMap
    /\ layers_map = EmptyMap
    /\ pos = EmptyMap

\* C13 (driver outcomes): main returns 2 exactly when the file is missing, and
\* then nothing was parsed or layered; 1 exactly when the file exists and no
\* edge was parsed; 0 otherwise.  With a non-zero status neither artifact is
\* written; with status 0 the SVG is written, and the DOT is written exactly
\* when the no-dot flag is not set.
C13_DriverOutcomes ==
    Exited =>
        /\ status \in {0, 1, 2}
        /\ status = 2 <=> ~csv.exists
        /\ status = 2 => Untouched
        /\ status = 1 <=> (csv.exists /\ NoEdgeParsed)
        /\ status = 0 <=> (csv.exists /\ ~NoEdgeParsed)
        /\ status # 0 => (~svg /\ ~dot)
        /\ status = 0 => (svg /\ (dot <=> ~no_dot))

\* The table of the single row a,a:1, whose endpoints are the same device: the
\* row was read, no edge was parsed, main returned 1 and wrote nothing.
C13_Witness ==
    /\ Exited
    /\ status = 1
    /\ csv.keys
    /\ Len(csv.rows) = 1
    /\ i = 1
    /\ normalize_device_token(csv.rows[1][1]) = normalize_device_token(csv.rows[1][2])
    /\ ~svg
    /\ ~dot

\* render_svg has written the document.
SvgWritten == pc \in {"svg_written", "exit"} /\ svg

\* The indices of the elements of a kind in the written list.
IndicesOf(kind) == { k \in 1..Len(parts) : parts[k].kind = kind }

LegendKinds ==
    { "legend_open", "legend_heading", "legend_swatch", "legend_name", "legend_close" }

\* C15 (SVG element order): after the document header come the background
\* rectangle, the title, one line for each edge of the edge set and no other
\* line, then for each node in ascending identifier order its rectangle
\* followed by its label, then the legend and the closing tag; every line
\* comes before every node rectangle.
C15_SvgElementOrder ==
    SvgWritten =>
        LET E == Cardinality(edges)
            N == Cardinality(nodes)
            NodeAt(j) == 3 + E + 2 * j - 1
        IN  /\ Len(parts) = 3 + E + 2 * N + 12
            /\ parts[2].kind = "background"
            /\ parts[3].kind = "title"
            /\ IndicesOf("line") = 4..(3 + E)
            /\ { << parts[k].a, parts[k].b >> : k \in 4..(3 + E) } = edges
            /\ \A j \in 1..N :
                 /\ parts[NodeAt(j)].kind = "node"
                 /\ parts[NodeAt(j) + 1].kind = "label"
                 /\ parts[NodeAt(j) + 1].a = parts[NodeAt(j)].a
                 /\ parts[NodeAt(j)].at = pos[parts[NodeAt(j)].a]
            /\ { parts[NodeAt(j)].a : j \in 1..N } = nodes
            /\ \A j, k \in 1..N : j < k => StrLess(parts[NodeAt(j)].a, parts[NodeAt(k)].a)
            /\ parts[3 + E + 2 * N + 1].kind = "legend_open"
            /\ \A k \in (3 + E + 2 * N + 1)..(Len(parts) - 1) : parts[k].kind \in LegendKinds
            /\ parts[Len(parts)].kind = "end"
            /\ \A k \in IndicesOf("line") : \A l \in IndicesOf("node") : k < l

\* A document with two lines and three nodes, where a node of a later column is
\* drawn before a node of an earlier column because its identifier is smaller.
C15_Witness ==
    /\ SvgWritten
    /\ Cardinality(IndicesOf("line")) = 2
    /\ Cardinality(IndicesOf("node")) = 3
    /\ \E k, l \in IndicesOf("node") :
         /\ k < l
         /\ StrLess(parts[k].a, parts[l].a)
         /\ layers_map[parts[k].a] > layers_map[parts[l].a]

\* C16 (node and edge set consistency): after any number of rows, every stored
\* edge has two distinct non-empty endpoints, the first below the second in
\* string order, both in the node set; every node is an endpoint of a stored
\* edge; and every endpoint in the list handed to assign_layers is a node.
C16_NodeEdgeConsistency ==
    /\ \A e \in edges :
         /\ e[1] # e[2]
         /\ e[1] \notin {None, <<>>}
         /\ e[2] \notin {None, <<>>}
         /\ StrLess(e[1], e[2])
         /\ e[1] \in nodes
         /\ e[2] \in nodes
    /\ \A n \in nodes : \E e \in edges : n = e[1] \/ n = e[2]
    /\ pc = "assign" =>
         \A k \in 1..Len(edges_list) : edges_list[k].a \in nodes /\ edges_list[k].b \in nodes

\* assign_layers is about to be called on two edges that share an endpoint,
\* read from a table of two kept rows.
C16_Witness ==
    /\ pc = "assign"
    /\ csv.keys
    /\ i = 2
    /\ Cardinality(edges) = 2
    /\ Cardinality(nodes) = 3
    /\ Len(edges_list) = 2

====
